---- MODULE Spec2Model ----
(***************************************************************************)
(* Burgers_1D.ipynb: the 1D viscous Burgers stepper (explicit diffusion    *)
(* followed by semi-Lagrangian advection on a periodic CenteredGrid) and   *)
(* the driver loop that threads it STEPS times into the list `velocities`. *)
(*                                                                         *)
(* Real numbers are exact rationals <<numerator, denominator>> in lowest   *)
(* terms with a positive denominator, so equal values are equal tuples.    *)
(* Floating-point rounding is not modelled.                                *)
(***************************************************************************)
EXTENDS Integers, Sequences, FiniteSets, TLC

\* ------------------------------------------------------------------------
\* Bounds of the model (the notebook runs N = 128, STEPS = 32).
N == 4
STEPS == 2
MaxVal == 1

\* ------------------------------------------------------------------------
\* Exact rational arithmetic.
Abs(k) == IF k < 0 THEN -k ELSE k

RECURSIVE Gcd(_, _)
Gcd(a, b) == IF b = 0 THEN a ELSE Gcd(b, a % b)

Rat(n, d) ==
    LET g == Gcd(Abs(n), Abs(d))
        s == IF d < 0 THEN -1 ELSE 1
    IN  <<(s * n) \div g, (s * d) \div g>>

Num(q) == q[1]
Den(q) == q[2]
RInt(k) == <<k, 1>>
Zero == RInt(0)
One == RInt(1)
Half == <<1, 2>>

RAdd(p, q) ==
    LET g == Gcd(Den(p), Den(q))
        l == (Den(p) \div g) * Den(q)
    IN  Rat(Num(p) * (l \div Den(p)) + Num(q) * (l \div Den(q)), l)

RNeg(p) == <<-Num(p), Den(p)>>
RSub(p, q) == RAdd(p, RNeg(q))

RMul(p, q) ==
    LET g1 == Gcd(Abs(Num(p)), Den(q))
        g2 == Gcd(Abs(Num(q)), Den(p))
    IN  Rat((Num(p) \div g1) * (Num(q) \div g2),
            (Den(p) \div g2) * (Den(q) \div g1))

RInv(p) == Rat(Den(p), Num(p))
RDiv(p, q) == RMul(p, RInv(q))
RFloor(p) == Num(p) \div Den(p)
RLe(p, q) == Num(RSub(p, q)) <= 0
RLt(p, q) == Num(RSub(p, q)) < 0

RECURSIVE SumSeq(_)
SumSeq(s) == IF s = << >> THEN Zero ELSE RAdd(Head(s), SumSeq(Tail(s)))

\* ------------------------------------------------------------------------
\* The grid: CenteredGrid(INITIAL, extrapolation.PERIODIC, x=N, bounds=Box[-1:1]).
Lower == -1
Upper == 1
ExtrapolationZero == "zero"

Extrapolation == "periodic"

\* Cell size of a grid of `res` cells, and the centre of cell i (0-based).
Dx(res) == Rat(Upper - Lower, res)
Center(i, res) == RAdd(RInt(Lower), RMul(RAdd(RInt(i), Half), Dx(res)))

\* DT = 1./STEPS
DT == Rat(1, STEPS)

\* The value of a grid at the (possibly out-of-range) 0-based cell index k,
\* as the grid's extrapolation gives it.
ValueAt(values, k, ext) ==
    IF ext = "periodic" THEN values[(k % Len(values)) + 1]
    ELSE IF k >= 0 /\ k < Len(values) THEN values[k + 1]
    ELSE Zero

PadNone(values, ext) == values

\* The values padded by one cell on each side.
Pad(values, ext) ==
    [j \in 1..(Len(values) + 2) |-> ValueAt(values, j - 2, ext)]

\* Central-difference Laplacian of the padded values, one entry per cell.
Laplace(values, ext) ==
    LET p == Pad(values, ext)
        h == Dx(Len(values))
    IN  [j \in 1..(Len(p) - 2) |->
            RDiv(RAdd(RSub(p[j + 2], RMul(RInt(2), p[j + 1])), p[j]), RMul(h, h))]

\* diffuse.explicit(field, diffusivity, dt): field + diffusivity*dt*laplace(field)
DiffuseExplicit(values, diffusivity, dt) ==
    LET amount == RMul(diffusivity, dt)
        lap == Laplace(values, Extrapolation)
    IN  [j \in 1..Len(lap) |-> RAdd(values[j], RMul(amount, lap[j]))]

\* Linear interpolation of the grid at location x.
GridSample(values, x, ext) ==
    LET res == Len(values)
        loc == RSub(RDiv(RSub(x, RInt(Lower)), Dx(res)), Half)
        lo == RFloor(loc)
        frac == RSub(loc, RInt(lo))
    IN  RAdd(RMul(RSub(One, frac), ValueAt(values, lo, ext)),
             RMul(frac, ValueAt(values, lo + 1, ext)))

\* Departure location of cell i: its centre traced back along velocity[i] over dt.
Departure(velocity, i, dt) ==
    RSub(Center(i, Len(velocity)), RMul(velocity[i + 1], dt))

\* advect.semi_lagrangian(field, velocity, dt)
SemiLagrangian(values, velocity, dt) ==
    [j \in 1..Len(values) |->
        GridSample(values, Departure(velocity, j - 1, dt), Extrapolation)]

\* One pass of the loop body as a function: step(field, dt, nu).
Step(values, dt, visc) ==
    LET d == DiffuseExplicit(values, visc, dt)
    IN  SemiLagrangian(d, d, dt)

\* ------------------------------------------------------------------------
\* Inputs of the model. Velocities are multiples of half a cell per time
\* step (Dx/DT/2), viscosities are given by their diffusion number
\* nu*DT/Dx^2, so that every value stays an exact rational.
CellSpeed == RDiv(Dx(N), DT)
Values == {RMul(Rat(k, 2), CellSpeed) : k \in (-MaxVal)..MaxVal}
InitialFields == [1..N -> Values]
Viscosity(r) == RMul(r, RDiv(RMul(Dx(N), Dx(N)), DT))
NUs == {Viscosity(Zero), Viscosity(Half)}
StepNUs == {Viscosity(Zero), Viscosity(Rat(1, 4)), Viscosity(Half)}
StepDTs == {DT, RMul(RInt(2), DT)}

\* ------------------------------------------------------------------------
\* State. The driver: the initial grid `velocity`, the list `velocities`,
\* the loop's v1, v2, age and i (unbound names are << >>, i is -1 before the
\* loop), the viscosity NU of the run and the position pc in the cell. A single call
\* of the stepper on its own: its arguments (field, dt, nu), the two
\* sub-steps' results (d1, d2) and its position cpc.
VARIABLES velocity, velocities, v1, v2, age, i, NU, pc, field, dt, nu, d1, d2, cpc

\* The cells after the simulation: the arrays vels, x, t, y of the sampling
\* cell (xs, ts, ys here: x and t name coordinates above), idx (perm here),
\* subx, subt, suby of the subsampling cell, and the last of these cells that
\* has run (cell).
VARIABLES vels, xs, ts, ys, perm, subx, subt, suby, cell

sampleVars == <<vels, xs, ts, ys, perm, subx, subt, suby, cell>>

\* A training loop: which of the notebooks' loops it is (loop), the model's
\* parameter (params), the data it is fitted to (target), y_pred, loss, the
\* parameter's .grad (grad), the list losses, the loop index i (epoch here: i
\* names the simulation's index above) and the position in the loop (tpc).
VARIABLES loop, params, target, y_pred, loss, grad, losses, epoch, tpc

trainVars == <<loop, params, target, y_pred, loss, grad, losses, epoch, tpc>>
laterVars == <<sampleVars, trainVars>>

\* The sampling cell has not run.
SampleIdle ==
    /\ vels = << >> /\ xs = << >> /\ ts = << >> /\ ys = << >>
    /\ perm = << >> /\ subx = << >> /\ subt = << >> /\ suby = << >>
    /\ cell = "none"

\* No training loop has run.
TrainIdle ==
    /\ loop = "none" /\ params = << >> /\ target = << >> /\ y_pred = << >>
    /\ loss = << >> /\ grad = << >> /\ losses = << >> /\ epoch = -1
    /\ tpc = "idle"

\* None of the later cells has run.
LaterIdle == SampleIdle /\ TrainIdle

vars == <<velocity, velocities, v1, v2, age, i, NU, pc, field, dt, nu, d1, d2, cpc,
          laterVars>>
driverVars == <<velocity, velocities, v1, v2, age, i, NU, pc>>
callVars == <<field, dt, nu, d1, d2, cpc>>

Last(s) == s[Len(s)]

\* velocity = CenteredGrid(INITIAL, ...); velocities = [velocity]; age = 0.
Init ==
    /\ velocity \in InitialFields
    /\ velocities = <<velocity>>
    /\ v1 = << >>
    /\ v2 = << >>
    /\ age = Zero
    /\ i = -1
    /\ NU \in NUs
    /\ pc = "for"
    /\ field = << >> /\ dt = DT /\ nu = Zero /\ d1 = << >> /\ d2 = << >>
    /\ cpc = "idle"
    /\ LaterIdle

\* range(STEPS) has an index after idx.
RangeHasNextInclusive(idx) == idx + 1 <= STEPS

RangeHasNext(idx) == idx + 1 < STEPS

\* for i in range(STEPS): the next index, or the end of the loop.
ForNext ==
    /\ pc = "for"
    /\ RangeHasNext(i)
    /\ i' = i + 1
    /\ pc' = "diffuse"
    /\ UNCHANGED <<velocity, velocities, v1, v2, age, NU>>
    /\ UNCHANGED callVars
    /\ UNCHANGED laterVars

ForEnd ==
    /\ pc = "for"
    /\ ~RangeHasNext(i)
    /\ pc' = "done"
    /\ UNCHANGED <<velocity, velocities, v1, v2, age, i, NU>>
    /\ UNCHANGED callVars
    /\ UNCHANGED laterVars

DiffuseInitial ==
    /\ pc = "diffuse"
    /\ v1' = DiffuseExplicit(velocity, NU, DT)
    /\ pc' = "advect"
    /\ UNCHANGED <<velocity, velocities, v2, age, i, NU>>
    /\ UNCHANGED callVars
    /\ UNCHANGED laterVars

DiffuseInPlace ==
    /\ pc = "diffuse"
    /\ v1' = DiffuseExplicit(Last(velocities), NU, DT)
    /\ velocities' = [velocities EXCEPT ![Len(velocities)] = v1']
    /\ pc' = "advect"
    /\ UNCHANGED <<velocity, v2, age, i, NU>>
    /\ UNCHANGED callVars
    /\ UNCHANGED laterVars

\* v1 = diffuse.explicit(velocities[-1], NU, DT)
Diffuse ==
    /\ pc = "diffuse"
    /\ v1' = DiffuseExplicit(Last(velocities), NU, DT)
    /\ pc' = "advect"
    /\ UNCHANGED <<velocity, velocities, v2, age, i, NU>>
    /\ UNCHANGED callVars
    /\ UNCHANGED laterVars

AdvectUndiffused ==
    /\ pc = "advect"
    /\ v2' = SemiLagrangian(Last(velocities), Last(velocities), DT)
    /\ pc' = "age"
    /\ UNCHANGED <<velocity, velocities, v1, age, i, NU>>
    /\ UNCHANGED callVars
    /\ UNCHANGED laterVars

\* v2 = advect.semi_lagrangian(v1, v1, DT)
Advect ==
    /\ pc = "advect"
    /\ v2' = SemiLagrangian(v1, v1, DT)
    /\ pc' = "age"
    /\ UNCHANGED <<velocity, velocities, v1, age, i, NU>>
    /\ UNCHANGED callVars
    /\ UNCHANGED laterVars

\* age += DT
Age ==
    /\ pc = "age"
    /\ age' = RAdd(age, DT)
    /\ pc' = "append"
    /\ UNCHANGED <<velocity, velocities, v1, v2, i, NU>>
    /\ UNCHANGED callVars
    /\ UNCHANGED laterVars

\* velocities.append(v2)
AppendVelocity ==
    /\ pc = "append"
    /\ velocities' = Append(velocities, v2)
    /\ pc' = "for"
    /\ UNCHANGED <<velocity, v1, v2, age, i, NU>>
    /\ UNCHANGED callVars
    /\ UNCHANGED laterVars

Next == ForNext \/ ForEnd \/ Diffuse \/ Advect \/ Age \/ AppendVelocity

Spec == Init /\ [][Next]_vars

\* ------------------------------------------------------------------------
\* One call step(field, dt, nu) on inputs drawn from the bounded sets.
CallInit ==
    /\ field \in InitialFields
    /\ dt \in StepDTs
    /\ nu \in StepNUs
    /\ d1 = << >>
    /\ d2 = << >>
    /\ cpc = "diffuse"
    /\ velocity = << >> /\ velocities = << >> /\ v1 = << >> /\ v2 = << >> /\ age = Zero
    /\ i = -1 /\ NU = Zero /\ pc = "idle"
    /\ LaterIdle

CallDiffuse ==
    /\ cpc = "diffuse"
    /\ d1' = DiffuseExplicit(field, nu, dt)
    /\ cpc' = "advect"
    /\ UNCHANGED <<field, dt, nu, d2>>
    /\ UNCHANGED driverVars
    /\ UNCHANGED laterVars

CallAdvectAlongInput ==
    /\ cpc = "advect"
    /\ d2' = SemiLagrangian(d1, field, dt)
    /\ cpc' = "done"
    /\ UNCHANGED <<field, dt, nu, d1>>
    /\ UNCHANGED driverVars
    /\ UNCHANGED laterVars

CallAdvect ==
    /\ cpc = "advect"
    /\ d2' = SemiLagrangian(d1, d1, dt)
    /\ cpc' = "done"
    /\ UNCHANGED <<field, dt, nu, d1>>
    /\ UNCHANGED driverVars
    /\ UNCHANGED laterVars

CallNext == CallDiffuse \/ CallAdvect

CallSpec == CallInit /\ [][CallNext]_vars

\* ------------------------------------------------------------------------
\* Properties of the driver loop (checked under Spec).

\* The names v1 and v2 are bound once the first iteration has passed the
\* statement that assigns them.
V1Bound == i >= 0 /\ ~(i = 0 /\ pc = "diffuse")
V2Bound == i >= 0 /\ ~(i = 0 /\ pc \in {"diffuse", "advect"})

\* Iterations of the loop body that have run to their end.
Completed == IF pc \in {"for", "done"} THEN i + 1 ELSE i

\* C1: every pass of the loop body runs the explicit diffusion of the last
\* recorded field first, giving v1, then the semi-Lagrangian advection of v1
\* along v1 itself, giving v2, and it is v2 that is recorded.
C1_TwoSubStepsInOrder ==
    /\ pc \in {"advect", "age", "append"} =>
            v1 = DiffuseExplicit(Last(velocities), NU, DT)
    /\ pc \in {"age", "append"} => v2 = SemiLagrangian(v1, v1, DT)
    /\ (pc \in {"for", "done"} /\ Len(velocities) > 1) =>
            /\ Last(velocities) = v2
            /\ v2 = SemiLagrangian(v1, v1, DT)
            /\ v1 = DiffuseExplicit(velocities[Len(velocities) - 1], NU, DT)

\* A recorded v2 that differs from v1, from the advection of the undiffused
\* field and from the input field.
C1_Witness ==
    /\ pc = "for"
    /\ Len(velocities) = 3
    /\ Last(velocities) = v2
    /\ v2 # v1
    /\ v1 # velocities[2]
    /\ v2 # SemiLagrangian(velocities[2], velocities[2], DT)

\* C2: the field at position k+1 of the list is step(field at position k,
\* DT, NU), and the diffusion of an iteration reads the last appended field.
C2_DriverThreadsFields ==
    /\ \A k \in 1..(Len(velocities) - 1) :
            velocities[k + 1] = Step(velocities[k], DT, NU)
    /\ pc = "advect" => v1 = DiffuseExplicit(velocities[i + 1], NU, DT)

\* The finished list of three pairwise different fields.
C2_Witness ==
    /\ pc = "done"
    /\ Len(velocities) = STEPS + 1
    /\ velocities[2] # velocities[1]
    /\ velocities[3] # velocities[2]
    /\ velocities[3] # velocities[1]
    /\ velocities[3] # Step(velocities[1], DT, NU)

\* The literal step count of the notebook and the number of time rows its
\* sampling cell builds (torch.linspace(0,1,33), x.repeat(33,1)).
NotebookSTEPS == 32
SampleTimeRows == 33

\* C3: after k completed iterations the list holds k+1 fields, the first of
\* them the initial grid; the loop starts another iteration exactly while
\* fewer than STEPS are completed, never completes more than STEPS, and ends
\* with the list holding STEPS+1 fields; for the notebook's STEPS = 32 that
\* is the 33 time rows of the sampling cell.
C3_ExactlyStepsIterations ==
    /\ Len(velocities) = Completed + 1
    /\ velocities[1] = velocity
    /\ Completed <= STEPS
    /\ pc \in {"for", "diffuse", "advect", "age", "append", "done"}
    /\ pc = "for" => (RangeHasNext(i) <=> Completed < STEPS)
    /\ pc = "done" =>
            /\ Completed = STEPS
            /\ Len(velocities) = STEPS + 1
    /\ SampleTimeRows = NotebookSTEPS + 1

\* The loop has ended after its last iteration changed the field.
C3_Witness ==
    /\ pc = "done"
    /\ i = STEPS - 1
    /\ Len(velocities) = STEPS + 1
    /\ Last(velocities) # velocity

\* C4: the initial field, every recorded field and the v1 and v2 of every
\* iteration have exactly N samples.
C4_EveryFieldHasNSamples ==
    /\ Len(velocity) = N
    /\ \A k \in 1..Len(velocities) : Len(velocities[k]) = N
    /\ V1Bound => Len(v1) = N
    /\ V2Bound => Len(v2) = N

\* Both sub-steps have run twice with a non-zero viscosity.
C4_Witness ==
    /\ pc = "append"
    /\ i = 1
    /\ NU # Zero
    /\ Len(v1) = N
    /\ Len(v2) = N
    /\ v1 # Last(velocities)
    /\ v2 # v1

\* ------------------------------------------------------------------------
\* Properties of one call of the stepper (checked under CallSpec).

\* Grid spacing h = (b - a)/N and the coordinate of grid point k (0-based).
GridH == Rat(Upper - Lower, N)
GridX(k) == RAdd(RInt(Lower), RMul(Rat(2 * k + 1, 2), GridH))

\* The sample of f at the 0-based index k taken modulo N.
Ring(f, k) == f[(k % N) + 1]

\* x wrapped into [Lower, Upper).
Wrap(x) ==
    LET period == RInt(Upper - Lower)
    IN  RSub(x, RMul(period, RInt(RFloor(RDiv(RSub(x, RInt(Lower)), period)))))

\* Location x in units of h, measured from grid point 0.
CellCoord(x) == RSub(RDiv(RSub(x, RInt(Lower)), GridH), Half)

\* C5: v1[k] = field[k] + (nu*dt/h^2) * (field[k+1] - 2*field[k] + field[k-1])
\* for every k in 0..N-1, the neighbours taken modulo N, with h = (b - a)/N.
C5_DiffusionFormula ==
    cpc \in {"advect", "done"} =>
        /\ Len(d1) = N
        /\ \A k \in 0..(N - 1) :
              d1[k + 1] =
                  RAdd(field[k + 1],
                       RMul(RDiv(RMul(nu, dt), RMul(GridH, GridH)),
                            RAdd(RSub(Ring(field, k + 1),
                                      RMul(RInt(2), field[k + 1])),
                                 Ring(field, k - 1))))

\* A diffusion that changed the first and the last sample, whose ring
\* neighbours (the last and the first sample) differ from zero.
C5_Witness ==
    /\ cpc = "advect"
    /\ nu # Zero
    /\ d1[1] # field[1]
    /\ d1[N] # field[N]
    /\ field[N] # Zero
    /\ field[1] # Zero

\* The value the claim gives v2 at grid point k: v1 interpolated linearly at
\* the wrapped departure location between its two neighbouring samples.
InterpolatedAtDeparture(f, k, step) ==
    LET w == Wrap(RSub(GridX(k), RMul(f[k + 1], step)))
        c == CellCoord(w)
        left == RFloor(c)
        t == RSub(c, RInt(left))
    IN  RAdd(RMul(RSub(One, t), Ring(f, left)), RMul(t, Ring(f, left + 1)))

\* C6: v2[k] is the linear interpolation of v1 at x_k - v1[k]*dt wrapped into
\* [a, b), between the two grid samples around it, indices modulo N.
C6_AdvectionFormula ==
    cpc = "done" =>
        /\ Len(d2) = N
        /\ \A k \in 0..(N - 1) : d2[k + 1] = InterpolatedAtDeparture(d1, k, dt)

\* A departure location outside [a, b) that falls strictly between two grid
\* points with different samples.
C6_Witness ==
    /\ cpc = "done"
    /\ \E k \in 0..(N - 1) :
          LET x == RSub(GridX(k), RMul(d1[k + 1], dt))
              c == CellCoord(Wrap(x))
          IN  /\ Wrap(x) # x
              /\ RInt(RFloor(c)) # c
              /\ Ring(d1, RFloor(c)) # Ring(d1, RFloor(c) + 1)
              /\ d2[k + 1] # d1[k + 1]

\* The last grid coordinate plus half a grid spacing.
LastPlusHalf == RAdd(GridX(N - 1), RMul(Half, GridH))

\* C7: a departure location equal to the last grid coordinate plus h/2 gives
\* the average of the last and the first sample of v1, and a field of N
\* samples is returned.
C7_BoundaryWraparound ==
    cpc = "done" =>
        /\ Len(d2) = N
        /\ \A k \in 0..(N - 1) :
              RSub(GridX(k), RMul(d1[k + 1], dt)) = LastPlusHalf =>
                  d2[k + 1] = RMul(Half, RAdd(d1[N], d1[1]))

\* Such a departure location, with a first sample that is neither zero nor
\* equal to the last sample.
C7_Witness ==
    /\ cpc = "done"
    /\ d1[1] # d1[N]
    /\ d1[1] # Zero
    /\ \E k \in 0..(N - 1) :
          RSub(GridX(k), RMul(d1[k + 1], dt)) = LastPlusHalf

\* C8: the diffusion sub-step leaves the sum of the grid values unchanged.
C8_DiffusionConservesSum ==
    cpc \in {"advect", "done"} => SumSeq(d1) = SumSeq(field)

\* A diffusion that changed a field whose sum is not zero.
C8_Witness ==
    /\ cpc = "advect"
    /\ d1 # field
    /\ SumSeq(field) # Zero
    /\ field[1] # Zero

\* f shifted cyclically by s: sample k of f becomes sample k+s.
Shift(f, s) == [j \in 1..Len(f) |-> f[((j - 1 - s) % Len(f)) + 1]]

\* C9: step applied to the cyclically shifted field is the cyclically
\* shifted result of step.
C9_ShiftEquivariance ==
    cpc = "done" =>
        \A s \in 0..(N - 1) : Step(Shift(field, s), dt, nu) = Shift(d2, s)

\* A result that differs from its input and from its own shift by one.
C9_Witness ==
    /\ cpc = "done"
    /\ nu # Zero
    /\ d2 # field
    /\ Shift(d2, 1) # d2
    /\ Shift(field, 1) # field

ZeroField == [j \in 1..N |-> Zero]

\* C10: with nu = 0 and a field that is zero everywhere, both sub-steps
\* return the all-zero field of N samples, whatever the (positive) dt.
C10_ZeroFieldIdentity ==
    (nu = Zero /\ field = ZeroField /\ RLt(Zero, dt)) =>
        /\ cpc \in {"advect", "done"} => d1 = ZeroField
        /\ cpc = "done" => d2 = ZeroField

\* The call on the zero field with nu = 0 has returned, for the larger dt.
C10_Witness ==
    /\ cpc = "done"
    /\ nu = Zero
    /\ field = ZeroField
    /\ dt # DT
    /\ d2 = ZeroField

\* ------------------------------------------------------------------------
\* C12: no step of the loop changes a field already in the list: the list
\* only grows at its end, the diffusion leaves its input (the last field of
\* the list) as it is, and the advection leaves its input v1 as it is.
C12_RecordedFieldsNeverChange ==
    [][ /\ Len(velocities') >= Len(velocities)
        /\ \A j \in 1..Len(velocities) : velocities'[j] = velocities[j]
        /\ pc = "diffuse" => velocities' = velocities
        /\ pc = "advect" => (velocities' = velocities /\ v1' = v1)
        /\ velocity' = velocity ]_vars

\* Two fields have been appended, each different from the one before it.
C12_Witness ==
    /\ pc = "for"
    /\ Len(velocities) = 3
    /\ velocities[2] # velocities[1]
    /\ velocities[3] # velocities[2]
    /\ v1 # velocities[2]

\* ------------------------------------------------------------------------
\* One call step(field, dt, nu) on arguments outside the stepper's documented
\* domain as well: fields of N-1, N or N+1 samples, dt and nu of either sign
\* or zero. The loop body runs no check before or between its two calls.
AnyFields == UNION {[1..m -> Values] : m \in {N - 1, N, N + 1}}
AnyDTs == {RNeg(DT), Zero, DT}
AnyNUs == {RNeg(Viscosity(Half)), Zero, Viscosity(Half)}

AnyCallInit ==
    /\ field \in AnyFields
    /\ dt \in AnyDTs
    /\ nu \in AnyNUs
    /\ d1 = << >>
    /\ d2 = << >>
    /\ cpc = "diffuse"
    /\ velocity = << >> /\ velocities = << >> /\ v1 = << >> /\ v2 = << >> /\ age = Zero
    /\ i = -1 /\ NU = Zero /\ pc = "idle"
    /\ LaterIdle

AnyCallSpec == AnyCallInit /\ [][CallNext]_vars

\* C13: a call on a field whose length differs from N produces no field
\* (neither v1 nor v2) and does not run to its end.
C13_ShapeMismatchRejected ==
    Len(field) # N => (d1 = << >> /\ d2 = << >> /\ cpc # "done")

\* C14: a call with dt <= 0 or nu < 0 produces no field (neither v1 nor v2)
\* and does not run to its end.
C14_InvalidParameterRejected ==
    (RLe(dt, Zero) \/ RLt(nu, Zero)) =>
        (d1 = << >> /\ d2 = << >> /\ cpc # "done")

\* ------------------------------------------------------------------------
\* The range of the number format, scaled down to the model: a magnitude
\* above FloatMax cells per time step stands for a value that has left the
\* finite range (inf, and the nan that follows from it).
FloatMax == 2

RAbs(p) == <<Abs(Num(p)), Den(p)>>
Finite(p) == RLe(RAbs(p), RMul(RInt(FloatMax), CellSpeed))
FiniteField(f) == \A j \in 1..Len(f) : Finite(f[j])

\* The loop run with a viscosity of diffusion number 2, outside the stable
\* range nu*dt/h^2 <= 1/2.
UnstableNUs == {Viscosity(RInt(2))}

UnstableInit ==
    /\ velocity \in InitialFields
    /\ velocities = <<velocity>>
    /\ v1 = << >>
    /\ v2 = << >>
    /\ age = Zero
    /\ i = -1
    /\ NU \in UnstableNUs
    /\ pc = "for"
    /\ field = << >> /\ dt = DT /\ nu = Zero /\ d1 = << >> /\ d2 = << >>
    /\ cpc = "idle"
    /\ LaterIdle

UnstableSpec == UnstableInit /\ [][Next]_vars

\* C15: a field produced with a non-finite value is never recorded in the
\* list and never read by a later iteration. A value of v1 outside the
\* finite range makes the v2 computed from it non-finite as well (the cell
\* is traced back along an infinite velocity), so a recorded field is one
\* whose v1 and v2 were both finite.
C15_NonFiniteFieldIsFatal ==
    /\ (pc \in {"for", "done"} /\ Len(velocities) > 1) =>
            (FiniteField(v1) /\ FiniteField(v2))
    /\ pc = "advect" => FiniteField(Last(velocities))

\* ------------------------------------------------------------------------
\* The literal parameters of the notebook: N = 128 cells on [-1, 1],
\* STEPS = 32, DT = 1./STEPS, NU = 0.01/np.pi. With pi > 3.14, NU is below
\* 0.01/3.14, which bounds the diffusion number NU*DT/h^2 from above.
NotebookNDoubled == 2 * 128

NotebookN == 128
PiLower == Rat(314, 100)
NotebookNUUpper == RDiv(Rat(1, 100), PiLower)
NotebookDT == Rat(1, NotebookSTEPS)
NotebookDiffusionNumberUpper ==
    RDiv(RMul(NotebookNUUpper, NotebookDT),
         RMul(Dx(NotebookN), Dx(NotebookN)))

\* The diffusion number of the run.
DiffusionNumber == RDiv(RMul(NU, DT), RMul(Dx(N), Dx(N)))

\* C16: the diffusion number of the literal parameters is at most 1/2, and a
\* run whose diffusion number is at most 1/2 produces only finite values:
\* every recorded field and every v1 and v2.
C16_LiteralParametersStable ==
    /\ RLe(NotebookDiffusionNumberUpper, Half)
    /\ RLe(DiffusionNumber, Half) =>
            /\ \A k \in 1..Len(velocities) : FiniteField(velocities[k])
            /\ FiniteField(v1)
            /\ FiniteField(v2)

\* A finished run with the diffusion number 1/2 whose every step changed the
\* field.
C16_Witness ==
    /\ pc = "done"
    /\ DiffusionNumber = Half
    /\ Len(velocities) = STEPS + 1
    /\ velocities[2] # velocities[1]
    /\ velocities[3] # velocities[2]
    /\ FiniteField(Last(velocities))

\* ------------------------------------------------------------------------
\* np.linspace(-1, 1, n, endpoint=False)[k]: n locations from Lower, Upper
\* left out.
LinspaceWithoutEndpoint(k, n) ==
    RAdd(RInt(Lower), RMul(RInt(k), Rat(Upper - Lower, n)))

\* np.linspace(-1, 1, n)[k]: n locations from Lower to Upper, both included.
Linspace(k, n) == RAdd(RInt(Lower), RMul(RInt(k), Rat(Upper - Lower, n - 1)))

\* Location of sample k of INITIAL_NUMPY (the values themselves, -sin(pi*x),
\* are any table of N numbers in this model).
InitialSampleX(k) == Linspace(k, N)

\* C17: the initial field is sampled at the N grid points of the periodic
\* grid: sample k sits at grid point k of the stepper, consecutive samples
\* are h = (b - a)/N apart, and no location of the ring is sampled twice.
C17_InitialSamplesOnGrid ==
    /\ \A k \in 0..(N - 1) : InitialSampleX(k) = Center(k, Len(velocity))
    /\ \A k \in 0..(N - 2) :
            RSub(InitialSampleX(k + 1), InitialSampleX(k)) = Rat(Upper - Lower, N)
    /\ \A j, k \in 0..(N - 1) :
            j # k => Wrap(InitialSampleX(j)) # Wrap(InitialSampleX(k))

\* ------------------------------------------------------------------------
\* The sampling cell and the subsampling cell, which run on the finished
\* simulation.

\* Rows kept by the subsampling cell (n_samples, 200 in the notebook).
NSamples == 2

\* n_samples of the notebook, and the rows of its training set.
NotebookNSamples == 200
NotebookRows == SampleTimeRows * NotebookN

\* torch.linspace(lo, hi, n): n values from lo to hi, both included.
LinspaceSeq(lo, hi, n) ==
    [k \in 1..n |-> RAdd(RInt(lo), RMul(RInt(k - 1), Rat(hi - lo, n - 1)))]

\* column.repeat_interleave(times, dim=0): every entry times times in a row.
RepeatInterleave(column, times) ==
    [r \in 1..(Len(column) * times) |-> column[((r - 1) \div times) + 1]]

\* column.repeat(times, 1): the whole column times times, one copy after the
\* other.
Repeat(column, times) ==
    [r \in 1..(Len(column) * times) |-> column[((r - 1) % Len(column)) + 1]]

\* np.array(rows).reshape(-1, 1): the rows one after the other (row-major).
RECURSIVE Reshape(_)
Reshape(rows) ==
    IF rows = << >> THEN << >> ELSE Head(rows) \o Reshape(Tail(rows))

\* The list velocities after n iterations of the loop from the field f.
RECURSIVE Trace(_, _, _)
Trace(f, visc, n) ==
    IF n = 0 THEN <<f>>
    ELSE LET before == Trace(f, visc, n - 1)
         IN  Append(before, Step(Last(before), DT, visc))

\* Three initial tables whose traces tell rows and columns apart.
Sawtooth == [j \in 1..N |-> RMul(Rat(((j - 1) % 3) - 1, 2), CellSpeed)]
SampleInitialFields ==
    {Sawtooth, [j \in 1..N |-> RNeg(Sawtooth[j])], Shift(Sawtooth, 1)}

\* The state the simulation cell leaves behind.
SampleInit ==
    /\ velocity \in SampleInitialFields
    /\ NU \in NUs
    /\ velocities = Trace(velocity, NU, STEPS)
    /\ v1 = DiffuseExplicit(velocities[STEPS], NU, DT)
    /\ v2 = Last(velocities)
    /\ age = RMul(RInt(STEPS), DT)
    /\ i = STEPS - 1
    /\ pc = "done"
    /\ field = << >> /\ dt = DT /\ nu = Zero /\ d1 = << >> /\ d2 = << >>
    /\ cpc = "idle"
    /\ LaterIdle

\* vels = [v.values.numpy('x,vector') for v in velocities]
\* x = linspace(-1,1,128) as a column, repeated 33 times
\* t = linspace(0,1,33) as a column, every entry repeated 128 times
\* y = np.array(vels).reshape(-1,1)
\* The literals 128 and 33 of the cell are N and STEPS + 1 of the notebook.
SamplingCell ==
    /\ pc = "done"
    /\ cell = "none"
    /\ vels' = velocities
    /\ xs' = Repeat(LinspaceSeq(Lower, Upper, N), STEPS + 1)
    /\ ts' = RepeatInterleave(LinspaceSeq(0, 1, STEPS + 1), N)
    /\ ys' = Reshape(vels')
    /\ cell' = "sampled"
    /\ UNCHANGED <<perm, subx, subt, suby>>
    /\ UNCHANGED driverVars
    /\ UNCHANGED callVars
    /\ UNCHANGED trainVars

\* idx[0:n_samples] for idx = torch.randperm(rows): any n_samples different
\* row indices, in any order.
RandpermHeads(rows, n) ==
    {p \in [1..n -> 0..(rows - 1)] : \A k, m \in 1..n : k # m => p[k] # p[m]}

\* n row indices drawn independently (torch.randint in place of randperm).
RandintHeads(rows, n) == [1..n -> 0..(rows - 1)]

\* column[idx[0:n_samples], :]
Rows(column, head) == [m \in 1..Len(head) |-> column[head[m] + 1]]

\* The subsampling cell with row indices drawn with replacement.
SubsamplingCellWithReplacement ==
    /\ cell = "sampled"
    /\ \E head \in RandintHeads(Len(xs), NSamples) :
            /\ perm' = head
            /\ subx' = Rows(xs, head)
            /\ subt' = Rows(ts, head)
            /\ suby' = Rows(ys, head)
    /\ cell' = "subsampled"
    /\ UNCHANGED <<vels, xs, ts, ys>>
    /\ UNCHANGED driverVars
    /\ UNCHANGED callVars
    /\ UNCHANGED trainVars

\* idx = torch.randperm(x.shape[0]); n_samples = 200
\* subx = x[idx[0:n_samples],:]; subt = t[...]; suby = y[...]
\* perm holds idx[0:n_samples], the only part of idx the cell reads.
SubsamplingCell ==
    /\ cell = "sampled"
    /\ \E head \in RandpermHeads(Len(xs), NSamples) :
            /\ perm' = head
            /\ subx' = Rows(xs, head)
            /\ subt' = Rows(ts, head)
            /\ suby' = Rows(ys, head)
    /\ cell' = "subsampled"
    /\ UNCHANGED <<vels, xs, ts, ys>>
    /\ UNCHANGED driverVars
    /\ UNCHANGED callVars
    /\ UNCHANGED trainVars

SampleNext ==
    \/ SamplingCell
    \/ SubsamplingCell

SampleSpec == SampleInit /\ [][SampleNext]_vars

\* C18: the training set has (STEPS + 1) * N rows, and row s*N + j holds the
\* x coordinate of grid point j, the time s * DT and the value trace[s][j].
C18_TrainingRowsAligned ==
    cell \in {"sampled", "subsampled"} =>
        /\ Len(xs) = (STEPS + 1) * N
        /\ Len(ts) = (STEPS + 1) * N
        /\ Len(ys) = (STEPS + 1) * N
        /\ \A s \in 0..STEPS : \A j \in 0..(N - 1) :
                /\ xs[s * N + j + 1] = Center(j, N)
                /\ ts[s * N + j + 1] = RMul(RInt(s), DT)
                /\ ys[s * N + j + 1] = velocities[s + 1][j + 1]

\* C19: the subsampled set keeps exactly n_samples rows of the training set,
\* at pairwise different row indices, and takes x, t and y of a kept row from
\* the same row; the notebook's 200 rows exist in its training set.
C19_SubsampleKeepsAlignedRows ==
    /\ NotebookNSamples <= NotebookRows
    /\ NSamples <= (STEPS + 1) * N
    /\ cell = "subsampled" =>
        /\ Len(subx) = NSamples /\ Len(subt) = NSamples /\ Len(suby) = NSamples
        /\ Len(perm) = NSamples
        /\ \A k, m \in 1..NSamples : k # m => perm[k] # perm[m]
        /\ \A m \in 1..NSamples :
                /\ perm[m] \in 0..(Len(xs) - 1)
                /\ <<subx[m], subt[m], suby[m]>> =
                       <<xs[perm[m] + 1], ts[perm[m] + 1], ys[perm[m] + 1]>>

\* Two rows kept out of order, from different times and with different
\* values.
C19_Witness ==
    /\ cell = "subsampled"
    /\ perm[1] > perm[2]
    /\ subt[1] # subt[2]
    /\ subx[1] # subx[2]
    /\ suby[1] # suby[2]

\* ------------------------------------------------------------------------
\* The training loops of Burgers_1D.ipynb (net_model, net_model_2) and of
\* Introduction_regression.ipynb (linear_regression_model,
\* nonlinear_regression_model).  The network is a one-parameter linear model
\* y_pred = w * x on two data points; every loop updates by the rule of
\* torch.optim.SGD.

\* Iterations of a training loop (epochs, 1000 to 20000 in the notebooks).
Epochs == 3

Loops == {"net_model", "net_model_2", "linear_regression_model",
          "nonlinear_regression_model"}

\* The loops that keep the list losses (net_model_2's loop has no append).
Recorded(l) == l # "net_model_2"

\* The inputs x of the data, the data y they are fitted to, the parameter
\* values a model may start from, and the learning rate.
TrainX == <<One, RInt(2)>>
Targets == [1..Len(TrainX) -> {RInt(-1), Zero, One}]
InitialWeights == {RInt(-1), Zero, One}
LR == Rat(1, 4)

\* .grad of a parameter that no backward pass has written yet.
NoGrad == << >>

\* model.forward(x): the prediction for every data point.
Forward(weight) == [k \in 1..Len(TrainX) |-> RMul(weight, TrainX[k])]

\* nn.MSELoss()(prediction, data): mean of the squared differences.
MSELoss(prediction, data) ==
    RDiv(SumSeq([k \in 1..Len(data) |->
                    RMul(RSub(prediction[k], data[k]),
                         RSub(prediction[k], data[k]))]),
         RInt(Len(data)))

\* What loss.backward() adds to the parameter's .grad: d loss / d w through
\* the recorded prediction.
BackwardGradient(prediction, data) ==
    RDiv(SumSeq([k \in 1..Len(data) |->
                    RMul(RMul(RInt(2), RSub(prediction[k], data[k])), TrainX[k])]),
         RInt(Len(data)))

\* optimizer.step(): new_parameters = old_parameters - lr * gradient.
SGDStep(weight, gradient) == RSub(weight, RMul(LR, gradient))

TrainInit ==
    /\ loop \in Loops
    /\ params \in InitialWeights
    /\ target \in Targets
    /\ y_pred = << >>
    /\ loss = << >>
    /\ grad = NoGrad
    /\ losses = << >>
    /\ epoch = -1
    /\ tpc = "for"
    /\ velocity \in {Sawtooth}
    /\ velocities = <<velocity>>
    /\ v1 = << >> /\ v2 = << >> /\ age = Zero /\ i = -1 /\ NU = Zero
    /\ pc = "idle"
    /\ field = << >> /\ dt = DT /\ nu = Zero /\ d1 = << >> /\ d2 = << >>
    /\ cpc = "idle"
    /\ SampleIdle

\* range(epochs) with one value too many.
EpochsHasNextInclusive(k) == k + 1 <= Epochs

\* for i in range(epochs): is there a next index
EpochsHasNext(k) == k + 1 < Epochs

TrainForNext ==
    /\ tpc = "for"
    /\ EpochsHasNext(epoch)
    /\ epoch' = epoch + 1
    /\ tpc' = "forward"
    /\ UNCHANGED <<loop, params, target, y_pred, loss, grad, losses>>
    /\ UNCHANGED <<driverVars, callVars, sampleVars>>

TrainForEnd ==
    /\ tpc = "for"
    /\ ~EpochsHasNext(epoch)
    /\ tpc' = "done"
    /\ UNCHANGED <<loop, params, target, y_pred, loss, grad, losses, epoch>>
    /\ UNCHANGED <<driverVars, callVars, sampleVars>>

\* y_pred = model.forward(x)
TrainForward ==
    /\ tpc = "forward"
    /\ y_pred' = Forward(params)
    /\ tpc' = "loss"
    /\ UNCHANGED <<loop, params, target, loss, grad, losses, epoch>>
    /\ UNCHANGED <<driverVars, callVars, sampleVars>>

\* loss = criterion(y_pred, y)
TrainLoss ==
    /\ tpc = "loss"
    /\ loss' = MSELoss(y_pred, target)
    /\ tpc' = IF Recorded(loop) THEN "append" ELSE "zero_grad"
    /\ UNCHANGED <<loop, params, target, y_pred, grad, losses, epoch>>
    /\ UNCHANGED <<driverVars, callVars, sampleVars>>

\* losses.append(loss)
TrainAppendLoss ==
    /\ tpc = "append"
    /\ losses' = Append(losses, loss)
    /\ tpc' = "zero_grad"
    /\ UNCHANGED <<loop, params, target, y_pred, loss, grad, epoch>>
    /\ UNCHANGED <<driverVars, callVars, sampleVars>>

\* The loop without optimizer.zero_grad().
TrainZeroGradSkipped ==
    /\ tpc = "zero_grad"
    /\ tpc' = "backward"
    /\ UNCHANGED <<loop, params, target, y_pred, loss, grad, losses, epoch>>
    /\ UNCHANGED <<driverVars, callVars, sampleVars>>

\* optimizer.zero_grad(): .grad becomes zero, or unset (set_to_none),
\* depending on the version of torch.
TrainZeroGrad ==
    /\ tpc = "zero_grad"
    /\ grad' \in {NoGrad, Zero}
    /\ tpc' = "backward"
    /\ UNCHANGED <<loop, params, target, y_pred, loss, losses, epoch>>
    /\ UNCHANGED <<driverVars, callVars, sampleVars>>

\* loss.backward(): the gradient of loss is added to .grad.
TrainBackward ==
    /\ tpc = "backward"
    /\ grad' = IF grad = NoGrad
               THEN BackwardGradient(y_pred, target)
               ELSE RAdd(grad, BackwardGradient(y_pred, target))
    /\ tpc' = "step"
    /\ UNCHANGED <<loop, params, target, y_pred, loss, losses, epoch>>
    /\ UNCHANGED <<driverVars, callVars, sampleVars>>

\* optimizer.step()
TrainStep ==
    /\ tpc = "step"
    /\ params' = SGDStep(params, grad)
    /\ tpc' = "for"
    /\ UNCHANGED <<loop, target, y_pred, loss, grad, losses, epoch>>
    /\ UNCHANGED <<driverVars, callVars, sampleVars>>

TrainNext ==
    \/ TrainForNext
    \/ TrainForEnd
    \/ TrainForward
    \/ TrainLoss
    \/ TrainAppendLoss
    \/ TrainZeroGrad
    \/ TrainBackward
    \/ TrainStep

TrainSpec == TrainInit /\ [][TrainNext]_vars

\* d/dw of the mean squared error of the model with parameter weight.
LossGradient(weight, data) ==
    RDiv(SumSeq([k \in 1..Len(data) |->
                    RMul(RMul(RInt(2), TrainX[k]),
                         RSub(RMul(weight, TrainX[k]), data[k]))]),
         RInt(Len(data)))

\* The parameter after n epochs of gradient descent from weight.
RECURSIVE After(_, _, _)
After(weight, data, n) ==
    IF n = 0 THEN weight
    ELSE LET before == After(weight, data, n - 1)
         IN  SGDStep(before, LossGradient(before, data))

\* Parameter updates the loop has made.
Updates == IF tpc \in {"for", "done"} THEN epoch + 1 ELSE epoch

\* C20: in every epoch the loop runs forward pass, loss, gradient reset,
\* back-propagation, parameter update in this order, so the gradient an
\* optimizer step consumes is the gradient of that epoch's loss only; the
\* loop ends after exactly Epochs iterations, and where losses are recorded
\* the list has Epochs entries, entry k being the loss computed before the
\* k-th parameter update.
C20_EpochOrderAndCounts ==
    /\ tpc \in {"for", "forward", "loss", "append", "zero_grad", "backward",
                "step", "done"}
    /\ tpc \in {"loss", "append", "zero_grad", "backward", "step"} =>
            y_pred = Forward(params)
    /\ tpc \in {"append", "zero_grad", "backward", "step"} =>
            loss = MSELoss(Forward(params), target)
    /\ tpc = "backward" => grad \in {NoGrad, Zero}
    /\ tpc = "step" => grad = LossGradient(params, target)
    /\ tpc = "done" => epoch = Epochs - 1
    /\ Len(losses) =
            IF ~Recorded(loop) THEN 0
            ELSE IF tpc \in {"forward", "loss", "append"} THEN epoch
            ELSE epoch + 1
    /\ (Recorded(loop) /\ tpc \in {"zero_grad", "backward", "step"}) =>
            Last(losses) = loss
    /\ (Recorded(loop) /\ tpc = "done") => Len(losses) = Epochs
    /\ \E w0 \in InitialWeights :
            /\ params = After(w0, target, Updates)
            /\ \A k \in 1..Len(losses) :
                    losses[k] = MSELoss(Forward(After(w0, target, k - 1)), target)

\* A finished loop that recorded Epochs different losses and whose last
\* update consumed a gradient that is not zero.
C20_Witness ==
    /\ tpc = "done"
    /\ Recorded(loop)
    /\ Len(losses) = Epochs
    /\ \A k, m \in 1..Epochs : k # m => losses[k] # losses[m]
    /\ grad # Zero
    /\ params \notin InitialWeights

\* ------------------------------------------------------------------------
\* Smallest, largest and largest absolute value of a field.
MinOf(f) == CHOOSE m \in {f[j] : j \in 1..Len(f)} : \A j \in 1..Len(f) : RLe(m, f[j])
MaxOf(f) == CHOOSE m \in {f[j] : j \in 1..Len(f)} : \A j \in 1..Len(f) : RLe(f[j], m)
MaxAbs(f) ==
    CHOOSE m \in {RAbs(f[j]) : j \in 1..Len(f)} : \A j \in 1..Len(f) : RLe(RAbs(f[j]), m)

\* Every value of f lies between the smallest and the largest value of g.
Within(f, g) ==
    \A j \in 1..Len(f) : RLe(MinOf(g), f[j]) /\ RLe(f[j], MaxOf(g))

\* p lies between the smaller and the larger of the values in the set S.
Between(p, S) ==
    /\ \E lo \in S : RLe(lo, p)
    /\ \E hi \in S : RLe(p, hi)

\* Every value of the diffused field d lies between the three values of f
\* around it on the ring.
DiffusedFromNeighbours(d, f) ==
    \A j \in 0..(Len(f) - 1) :
        Between(d[j + 1], {Ring(f, j - 1), Ring(f, j), Ring(f, j + 1)})

\* Every value of the advected field a lies between two adjacent values of d
\* on the ring.
AdvectedFromAdjacentPair(a, d) ==
    \A j \in 1..Len(a) :
        \E k \in 0..(Len(d) - 1) : Between(a[j], {Ring(d, k), Ring(d, k + 1)})

\* v1 and v2 of one step from the field f obey the maximum principle.
StepWithinInput(f, diffused, advected) ==
    /\ Within(diffused, f)
    /\ DiffusedFromNeighbours(diffused, f)
    /\ Within(advected, f)
    /\ AdvectedFromAdjacentPair(advected, diffused)

\* C21: with a diffusion number between 0 and 1/2 every value of v1 and of v2
\* lies between the minimum and the maximum of the step's input field (v1[i]
\* between its three neighbours of the input, v2[i] between two adjacent
\* values of v1), and no recorded field has a larger maximum absolute value
\* than the initial field.
C21_MaximumPrinciple ==
    (RLe(Zero, DiffusionNumber) /\ RLe(DiffusionNumber, Half)) =>
        /\ pc = "advect" =>
                /\ Within(v1, Last(velocities))
                /\ DiffusedFromNeighbours(v1, Last(velocities))
        /\ pc \in {"age", "append"} =>
                StepWithinInput(Last(velocities), v1, v2)
        /\ (pc \in {"for", "done"} /\ Len(velocities) > 1) =>
                StepWithinInput(velocities[Len(velocities) - 1], v1, v2)
        /\ \A k \in 1..Len(velocities) :
                RLe(MaxAbs(velocities[k]), MaxAbs(velocities[1]))

\* A finished run with diffusion number 1/2 in which every step changed the
\* field and the largest absolute value went down.
C21_Witness ==
    /\ pc = "done"
    /\ DiffusionNumber = Half
    /\ \A k \in 1..(Len(velocities) - 1) : velocities[k + 1] # velocities[k]
    /\ v2 # v1
    /\ RLt(MaxAbs(Last(velocities)), MaxAbs(velocities[1]))

\* ------------------------------------------------------------------------
\* f is odd about the domain centre: f[N-1-k] = -f[k], indices from 0.
Odd(f) == \A k \in 0..(Len(f) - 1) : f[Len(f) - k] = RNeg(f[k + 1])

\* The magnitudes of the differences of adjacent samples of f mirror about
\* the centre: |f[k+1] - f[k]| = |f[N-1-k] - f[N-2-k]|, indices from 0.
MirroredDifferences(f) ==
    \A k \in 0..(Len(f) - 2) :
        RAbs(RSub(f[k + 2], f[k + 1])) =
            RAbs(RSub(f[Len(f) - k], f[Len(f) - k - 1]))

\* C22: odd symmetry about the domain centre is preserved: the notebook
\* samples its odd initial function at locations that mirror about 0, and
\* from an initial field with field[N-1-i] = -field[i] every v1, every v2 and
\* every recorded field is odd again, with adjacent-sample differences whose
\* magnitudes mirror about the centre.
C22_OddSymmetryPreserved ==
    /\ \A k \in 0..(N - 1) : InitialSampleX(N - 1 - k) = RNeg(InitialSampleX(k))
    /\ Odd(velocity) =>
            /\ \A k \in 1..Len(velocities) :
                    Odd(velocities[k]) /\ MirroredDifferences(velocities[k])
            /\ V1Bound => Odd(v1)
            /\ V2Bound => (Odd(v2) /\ MirroredDifferences(v2))

\* A finished run from an odd initial field in which every step changed the
\* field, with a recorded field that has a difference of adjacent samples
\* which is not zero.
C22_Witness ==
    /\ pc = "done"
    /\ Odd(velocity)
    /\ DiffusionNumber = Half
    /\ \A k \in 1..(Len(velocities) - 1) : velocities[k + 1] # velocities[k]
    /\ v2 # v1
    /\ \E k \in 1..(N - 1) : Last(velocities)[k + 1] # Last(velocities)[k]

====
